---- MODULE Spec2Model ----
(***************************************************************************)
(* Last-Write-Wins element graph (src/main/lww_directed_graph.py).         *)
(*                                                                         *)
(* Every replica is one Graph object: four dicts.  The two vertex dicts    *)
(* map a vertex to a timestamp.  The two edge dicts map a source vertex to *)
(* an inner dict object (target -> timestamp).  Inner dicts are Python     *)
(* objects with an identity: merge stores a received inner dict by         *)
(* reference, so the model keeps them in a heap and the edge dicts hold    *)
(* references.  Inner dicts keep their insertion order (a sequence of      *)
(* <<target, timestamp>> pairs); the order of the other dicts is never     *)
(* observed by the code and they are plain functions.                      *)
(***************************************************************************)
EXTENDS Integers, Sequences, FiniteSets, TLC

\* ------------------------------------------------------------------ bounds
NumReplicas == 2
NumVertices == 3
MaxTs == 2
MaxOps == 3
MaxLocalOps == 4
NumThreads == 2
MaxSetupOps == 1
MaxWalkOps == 3

Replicas == 1..NumReplicas
Vertices == 1..NumVertices
Timestamps == 1..MaxTs
Threads == 1..NumThreads

\* timestamp=None, the default of addVertex and removeEdge; `timestamp if
\* timestamp else ...` treats None and 0 alike, so one falsy value stands for both
NoTimestamp == 0

VARIABLES
    vertices_added_set,    \* [replica -> dict vertex -> timestamp]
    vertices_removed_set,  \* [replica -> dict vertex -> timestamp]
    edges_added_set,       \* [replica -> dict source -> reference of an inner dict]
    edges_removed_set,     \* [replica -> dict source -> reference of an inner dict]
    heap,                  \* reference -> inner dict: sequence of <<target, timestamp>>
    clock,                 \* [replica -> the last value _generateTimestamp returned, 0: none]
    err,                   \* the exception the last operation raised, "none" if it returned
    ops,                   \* number of operations called so far
    expected,              \* the graph a single caller expects (SpecLocal only)
    pc,                    \* [thread -> where the thread is in its call] (SpecThreads only)
    frame,                 \* [thread -> the call of the thread and its locals]
    lock,                  \* the thread that holds self.lock of the threaded replica, 0: free
    serial,                \* the state the completed calls give when run one after another
    observed,              \* what the query of a thread returned
    stack,                 \* the calls of findPaths that have not returned (SpecWalk only)
    walk                   \* the findPaths call of the caller and its result

threadVars == <<pc, frame, lock, observed>>

walkVars == <<stack, walk>>

vars == <<vertices_added_set, vertices_removed_set, edges_added_set,
          edges_removed_set, heap, clock, err, ops, expected, threadVars, serial,
          walkVars>>

\* ------------------------------------------------------------------ dicts
EmptyDict == [x \in {} |-> 0]

\* d[k] = v
Put(d, k, v) == [x \in (DOMAIN d) \cup {k} |-> IF x = k THEN v ELSE d[x]]

\* the keys of an inner dict, in insertion order
Keys(od) == [i \in 1..Len(od) |-> od[i][1]]

KeySet(od) == {od[i][1] : i \in 1..Len(od)}

\* od[k], for a key the inner dict holds
Get(od, k) == od[CHOOSE i \in 1..Len(od) : od[i][1] = k][2]

\* od[k] = v: an existing key keeps its place, a new key goes last
OPut(od, k, v) ==
    IF k \in KeySet(od)
    THEN [i \in 1..Len(od) |-> IF od[i][1] = k THEN <<k, v>> ELSE od[i]]
    ELSE Append(od, <<k, v>>)

\* an inner dict as a plain mapping (dict equality ignores the order)
AsMap(od) == [k \in KeySet(od) |-> Get(od, k)]

\* the identity of the inner dict replica r creates for a source in kind
\* ("added" / "removed"): a replica creates at most one per kind and source,
\* because a key of an edge dict is never deleted or emptied
Ref(kind, r, source) == <<kind, r, source>>

\* ------------------------------------------------------------------ state
\* The state of all replicas as one record, so that operations compose.
State ==
    [va |-> vertices_added_set, vr |-> vertices_removed_set,
     ea |-> edges_added_set, er |-> edges_removed_set,
     heap |-> heap, err |-> err]

\* Graph.__init__
InitState ==
    [va |-> [r \in Replicas |-> EmptyDict], vr |-> [r \in Replicas |-> EmptyDict],
     ea |-> [r \in Replicas |-> EmptyDict], er |-> [r \in Replicas |-> EmptyDict],
     heap |-> EmptyDict, err |-> "none"]

\* ------------------------------------------------------------------ queries
\* mutant: the removal wins a tie (`>` for `>=`, as in lww_undirected_graph.py)
lookupVertexExists_strict(st, r, vertex) ==
    /\ vertex \in DOMAIN st.va[r]
    /\ \/ vertex \notin DOMAIN st.vr[r]
       \/ st.va[r][vertex] > st.vr[r][vertex]

lookupVertexExists(st, r, vertex) ==
    /\ vertex \in DOMAIN st.va[r]
    /\ \/ vertex \notin DOMAIN st.vr[r]
       \/ st.va[r][vertex] >= st.vr[r][vertex]

\* dict.get(k) is truthy: the key is there and its inner dict is not empty
Truthy(st, d, k) == k \in DOMAIN d /\ st.heap[d[k]] # <<>>

\* `timestamp if timestamp else self._generateTimestamp()`; now is the value
\* _generateTimestamp returns when it is called
Resolve(timestamp, now) == IF timestamp # NoTimestamp THEN timestamp ELSE now

\* ------------------------------------------------------------------ mutations
addVertex(st, r, vertex, timestamp, now) ==
    [st EXCEPT !.va[r] = Put(@, vertex, Resolve(timestamp, now))]

\* mutant: the source vertex is not added when it does not exist
addEdge_noSource(st, r, frm, to, now) ==
    LET s2 == IF ~lookupVertexExists(st, r, to)
              THEN addVertex(st, r, to, now, now) ELSE st
    IN  IF Truthy(s2, s2.ea[r], frm)
        THEN [s2 EXCEPT !.heap[s2.ea[r][frm]] = OPut(@, to, now)]
        ELSE [s2 EXCEPT !.ea[r] = Put(@, frm, Ref("added", r, frm)),
                        !.heap = Put(@, Ref("added", r, frm), <<<<to, now>>>>)]

addEdge(st, r, frm, to, now) ==
    LET s1 == IF ~lookupVertexExists(st, r, to)
              THEN addVertex(st, r, to, now, now) ELSE st
        s2 == IF ~lookupVertexExists(s1, r, frm)
              THEN addVertex(s1, r, frm, now, now) ELSE s1
    IN  IF Truthy(s2, s2.ea[r], frm)
        THEN [s2 EXCEPT !.heap[s2.ea[r][frm]] = OPut(@, to, now)]
        ELSE [s2 EXCEPT !.ea[r] = Put(@, frm, Ref("added", r, frm)),
                        !.heap = Put(@, Ref("added", r, frm), <<<<to, now>>>>)]

\* mutant: the inner dict is always replaced by a new one
removeEdge_replace(st, r, frm, to, timestamp, now) ==
    LET ts == Resolve(timestamp, now)
    IN  [st EXCEPT !.er[r] = Put(@, frm, Ref("removed", r, frm)),
                   !.heap = Put(@, Ref("removed", r, frm), <<<<to, ts>>>>)]

removeEdge(st, r, frm, to, timestamp, now) ==
    LET ts == Resolve(timestamp, now)
    IN  IF Truthy(st, st.er[r], frm)
        THEN [st EXCEPT !.heap[st.er[r][frm]] = OPut(@, to, ts)]
        ELSE [st EXCEPT !.er[r] = Put(@, frm, Ref("removed", r, frm)),
                        !.heap = Put(@, Ref("removed", r, frm), <<<<to, ts>>>>)]

\* for connection in connected_vertices: self.removeEdge(vertex, connection, timestamp)
RECURSIVE removeOutgoing(_, _, _, _, _)
removeOutgoing(st, r, vertex, connected_vertices, ts) ==
    IF connected_vertices = <<>> THEN st
    ELSE removeOutgoing(removeEdge(st, r, vertex, Head(connected_vertices), ts, ts),
                        r, vertex, Tail(connected_vertices), ts)

\* for connection in self.edges_added_set.keys(): the sources, other than vertex, whose
\* inner dict has vertex as a key.  Each removeEdge writes another inner dict of
\* edges_removed_set, so the order of this loop does not show in the result.
RECURSIVE removeIncoming(_, _, _, _, _)
\* mutant: the loop over the sources removes nothing
removeIncoming_none(st, r, vertex, sources, ts) == st

removeIncoming(st, r, vertex, sources, ts) ==
    IF sources = {} THEN st
    ELSE LET connection == CHOOSE c \in sources : TRUE
         IN  removeIncoming(removeEdge(st, r, connection, vertex, ts, ts),
                            r, vertex, sources \ {connection}, ts)

\* mutant: the edges pointing to the vertex are not removed
removeVertex_outgoingOnly(st, r, vertex, now) ==
    LET s0 == [st EXCEPT !.vr[r] = Put(@, vertex, now)]
        connected_vertices ==
            IF vertex \in DOMAIN s0.ea[r] THEN Keys(s0.heap[s0.ea[r][vertex]]) ELSE <<>>
    IN  removeOutgoing(s0, r, vertex, connected_vertices, now)

removeVertex(st, r, vertex, now) ==
    LET s0 == [st EXCEPT !.vr[r] = Put(@, vertex, now)]
        connected_vertices ==
            IF vertex \in DOMAIN s0.ea[r] THEN Keys(s0.heap[s0.ea[r][vertex]]) ELSE <<>>
        s1 == removeOutgoing(s0, r, vertex, connected_vertices, now)
        pointing == {c \in DOMAIN s1.ea[r] :
                        c # vertex /\ vertex \in KeySet(s1.heap[s1.ea[r][c]])}
    IN  removeIncoming(s1, r, vertex, pointing, now)

\* ------------------------------------------------------------------ queries
\* mutant: the removal wins a tie (`<` for `<=`)
RECURSIVE keptConnections_strict(_, _)
keptConnections_strict(added_connections, removed_connections) ==
    IF added_connections = <<>> THEN <<>>
    ELSE LET connection == Head(added_connections)[1]
             rest == keptConnections_strict(Tail(added_connections), removed_connections)
         IN  IF \/ connection \notin KeySet(removed_connections)
                \/ Get(removed_connections, connection) < Head(added_connections)[2]
             THEN <<connection>> \o rest
             ELSE rest

\* the loop of lines 148-153: the added connections the removed
\* ones do not beat, in the order of added_connections
RECURSIVE keptConnections(_, _)
keptConnections(added_connections, removed_connections) ==
    IF added_connections = <<>> THEN <<>>
    ELSE LET connection == Head(added_connections)[1]
             rest == keptConnections(Tail(added_connections), removed_connections)
         IN  IF \/ connection \notin KeySet(removed_connections)
                \/ Get(removed_connections, connection) <= Head(added_connections)[2]
             THEN <<connection>> \o rest
             ELSE rest

lookupConnectedVertices(st, r, vertex) ==
    IF vertex \notin DOMAIN st.ea[r] THEN <<>>
    ELSE IF vertex \notin DOMAIN st.er[r] THEN Keys(st.heap[st.ea[r][vertex]])
    ELSE keptConnections(st.heap[st.ea[r][vertex]], st.heap[st.er[r][vertex]])

\* the local newpaths before its first assignment: reading it raises NameError,
\* which the loop body catches (`except NameError: continue`)
Unbound == [bound |-> FALSE, list |-> <<>>]

Bound(list) == [bound |-> TRUE, list |-> list]

\* findPaths(vertex1, vertex2, path) and the loop of lines 176-184.  The loop's
\* state is (paths, newpaths): newpaths is a local of the call, it keeps the value
\* of the last neighbour that was not on the path.
RECURSIVE findPaths(_, _, _, _, _)
RECURSIVE findPathsLoop(_, _, _, _, _, _, _)
\* mutant: the loop returns at the first neighbour that gave a path
findPathsLoop_firstFound(st, r, vertex2, path, connected_vertices, paths, newpaths) ==
    IF connected_vertices = <<>> \/ paths # <<>> THEN paths
    ELSE LET vertex == Head(connected_vertices)
             onPath == \E i \in 1..Len(path) : path[i] = vertex
             newpaths1 == IF ~onPath THEN Bound(findPaths(st, r, vertex, vertex2, path))
                          ELSE newpaths
             paths1 == IF newpaths1.bound THEN paths \o newpaths1.list ELSE paths
         IN  findPathsLoop(st, r, vertex2, path, Tail(connected_vertices),
                           paths1, newpaths1)

findPaths(st, r, vertex1, vertex2, path) ==
    LET path1 == path \o <<vertex1>>
    IN  IF vertex1 = vertex2 THEN <<path1>>
        ELSE findPathsLoop(st, r, vertex2, path1,
                           lookupConnectedVertices(st, r, vertex1), <<>>, Unbound)

findPathsLoop(st, r, vertex2, path, connected_vertices, paths, newpaths) ==
    IF connected_vertices = <<>> THEN paths
    ELSE LET vertex == Head(connected_vertices)
             onPath == \E i \in 1..Len(path) : path[i] = vertex
             newpaths1 == IF ~onPath THEN Bound(findPaths(st, r, vertex, vertex2, path))
                          ELSE newpaths
             paths1 == IF newpaths1.bound THEN paths \o newpaths1.list ELSE paths
         IN  findPathsLoop(st, r, vertex2, path, Tail(connected_vertices),
                           paths1, newpaths1)

\* ------------------------------------------------------------------ merge
\* mutant: the received timestamp replaces the local one without a comparison
mergeVertices_receivedWins(local_set, received_set) ==
    [vertex \in (DOMAIN local_set) \cup (DOMAIN received_set) |->
        IF vertex \in DOMAIN received_set THEN received_set[vertex] ELSE local_set[vertex]]

\* _mergeVertices(local_set, received_set)
mergeVertices(local_set, received_set) ==
    LET overlapping_vertices == (DOMAIN local_set) \cap (DOMAIN received_set)
    IN  [vertex \in (DOMAIN local_set) \cup (DOMAIN received_set) |->
            IF vertex \in overlapping_vertices
            THEN IF received_set[vertex] > local_set[vertex]
                 THEN received_set[vertex] ELSE local_set[vertex]
            ELSE IF vertex \in DOMAIN received_set
                 THEN received_set[vertex] ELSE local_set[vertex]]

\* The inner loop of _mergeEdges (lines 263-270) for one overlapping source:
\* `for edge in latest_edges_set[vertex].keys()` walks the LOCAL inner dict and
\* reads received_set[vertex][edge], which raises KeyError when the received
\* inner dict has no such target.  latest_edges_set is a shallow copy, so the
\* writes go to the local inner dict itself and stay when the loop raises.
\* todo: the keys still to visit; inner: the local inner dict so far.
RECURSIVE mergeInner(_, _, _)
mergeInner(todo, inner, received) ==
    IF todo = <<>> THEN [raised |-> FALSE, inner |-> inner]
    ELSE LET edge == Head(todo)
         IN  IF edge \notin KeySet(received)
             THEN [raised |-> TRUE, inner |-> inner]
             ELSE mergeInner(Tail(todo),
                             IF Get(received, edge) > Get(inner, edge)
                             THEN OPut(inner, edge, Get(received, edge))
                             ELSE inner,
                             received)

\* `for vertex in overlapping_vertices`: order lists the overlapping sources in
\* the order the set yields them.  Returns the heap after the loop and whether
\* it raised.  received_heap is the heap the received inner dicts are read from.
RECURSIVE mergeOverlapping(_, _, _, _, _)
mergeOverlapping(hp, local_set, received_set, received_heap, order) ==
    IF order = <<>> THEN [raised |-> FALSE, heap |-> hp]
    ELSE LET vertex == Head(order)
             local_inner == hp[local_set[vertex]]
             res == mergeInner(Keys(local_inner), local_inner,
                               received_heap[received_set[vertex]])
             hp1 == [hp EXCEPT ![local_set[vertex]] = res.inner]
         IN  IF res.raised THEN [raised |-> TRUE, heap |-> hp1]
             ELSE mergeOverlapping(hp1, local_set, received_set, received_heap,
                                   Tail(order))

\* mutant: latest_edges_set starts empty instead of as a copy of local_set
mergeEdges_noCopy(hp, kind, r, local_set, received_set, byRef, order) ==
    LET overlapping_vertices == (DOMAIN local_set) \cap (DOMAIN received_set)
        received_only == (DOMAIN received_set) \ overlapping_vertices
    IN  [raised |-> FALSE, heap |-> hp,
         latest |-> [vertex \in received_only |-> received_set[vertex]]]

\* _mergeEdges(local_set, received_set) on replica r.  byRef: the received dicts are
\* the other Graph's own objects (the tests pass replica_graph.edges_added_set);
\* otherwise they are a deserialized copy, whose inner dicts are fresh objects.
\* A source only the received set has is stored as the received inner dict itself
\* (line 273), never copied.
mergeEdges(hp, kind, r, local_set, received_set, byRef, order) ==
    LET overlapping_vertices == (DOMAIN local_set) \cap (DOMAIN received_set)
        received_only == (DOMAIN received_set) \ overlapping_vertices
        res == mergeOverlapping(hp, local_set, received_set, hp,
                                SelectSeq(order, LAMBDA v : v \in overlapping_vertices))
        stored(vertex) == IF byRef THEN received_set[vertex] ELSE Ref(kind, r, vertex)
    IN  IF res.raised THEN [raised |-> TRUE, heap |-> res.heap, latest |-> local_set]
        ELSE [raised |-> FALSE,
              heap |-> [ref \in (DOMAIN res.heap) \cup {stored(v) : v \in received_only} |->
                           IF \E v \in received_only : ref = stored(v)
                           THEN hp[received_set[CHOOSE v \in received_only : ref = stored(v)]]
                           ELSE res.heap[ref]],
              latest |-> [vertex \in (DOMAIN local_set) \cup received_only |->
                             IF vertex \in received_only THEN stored(vertex)
                             ELSE local_set[vertex]]]

\* merge on replica r of the four sets of replica r2.  An exception raised by
\* _mergeEdges leaves what was assigned before it.
merge(st, r, r2, byRef, order) ==
    LET s1 == [st EXCEPT !.va[r] = mergeVertices(st.va[r], st.va[r2]),
                         !.vr[r] = mergeVertices(st.vr[r], st.vr[r2])]
        a == mergeEdges(s1.heap, "added", r, s1.ea[r], s1.ea[r2], byRef, order)
        s2 == [s1 EXCEPT !.heap = a.heap, !.ea[r] = a.latest]
        b == mergeEdges(s2.heap, "removed", r, s2.er[r], s2.er[r2], byRef, order)
    IN  IF a.raised THEN [s1 EXCEPT !.heap = a.heap, !.err = "KeyError"]
        ELSE IF b.raised THEN [s2 EXCEPT !.heap = b.heap, !.err = "KeyError"]
        ELSE [s2 EXCEPT !.heap = b.heap, !.er[r] = b.latest]

\* ------------------------------------------------------------------ actions
\* the orders in which a set of vertices can be iterated
OrdersOf(S) ==
    {o \in [1..Cardinality(S) -> S] : \A i, j \in 1..Cardinality(S) : o[i] = o[j] => i = j}

\* the orders in which `for vertex in overlapping_vertices` can visit the sources
\* replica r and replica r2 share (in either edge map)
Orders(r, r2) ==
    OrdersOf(((DOMAIN edges_added_set[r]) \cap (DOMAIN edges_added_set[r2]))
             \cup ((DOMAIN edges_removed_set[r]) \cap (DOMAIN edges_removed_set[r2])))

\* int(time.time() * 1000000): the clock of a replica's process does not go back
\* between two readings, and two readings can be equal
Readings(r) == {t \in Timestamps : t >= clock[r]}

\* Vertices are opaque identifiers: the code only tests them for equality, so a
\* run is the same run under any renaming of them.  The actions therefore name
\* a vertex that no dict holds yet with the least unused number, and likewise a
\* replica that has not been touched yet.
Known ==
    UNION {(DOMAIN vertices_added_set[r]) \cup (DOMAIN vertices_removed_set[r])
           \cup (DOMAIN edges_added_set[r]) \cup (DOMAIN edges_removed_set[r]) : r \in Replicas}
    \cup UNION {KeySet(heap[ref]) : ref \in DOMAIN heap}

Nameable(known) == {v \in Vertices : \A u \in 1..(v - 1) : u \in known}

Touched ==
    {r \in Replicas : \/ clock[r] # 0
                      \/ vertices_added_set[r] # EmptyDict
                      \/ vertices_removed_set[r] # EmptyDict
                      \/ edges_added_set[r] # EmptyDict
                      \/ edges_removed_set[r] # EmptyDict}

Callable == {r \in Replicas : \A q \in 1..(r - 1) : q \in Touched}

\* the state when an operation is entered
Entry == [State EXCEPT !.err = "none"]

\* a thread that has not called yet: no call, no locals
NoFrame ==
    [op |-> "none", step |-> "none", x |-> 0, y |-> 0, timestamp |-> NoTimestamp,
     now |-> NoTimestamp, todo |-> <<>>, pending |-> {}, byRef |-> FALSE, order |-> <<>>]

\* findPaths has not been called
NoWalk == [state |-> "idle", vertex1 |-> 0, vertex2 |-> 0, result |-> <<>>]

NoObservation == [kind |-> "none", x |-> 0, y |-> 0, exists |-> FALSE, list |-> <<>>]

\* the writes of one step
Write(st) ==
    /\ vertices_added_set' = st.va
    /\ vertices_removed_set' = st.vr
    /\ edges_added_set' = st.ea
    /\ edges_removed_set' = st.er
    /\ heap' = st.heap
    /\ err' = st.err

\* a whole call by a single caller
Install(st) ==
    /\ Write(st)
    /\ serial' = st

\* _generateTimestamp was called iff no timestamp was passed
Tick(r, timestamp, now) ==
    clock' = IF timestamp = NoTimestamp THEN [clock EXCEPT ![r] = now] ELSE clock

Init ==
    /\ vertices_added_set = InitState.va
    /\ vertices_removed_set = InitState.vr
    /\ edges_added_set = InitState.ea
    /\ edges_removed_set = InitState.er
    /\ heap = InitState.heap
    /\ err = InitState.err
    /\ clock = [r \in Replicas |-> 0]
    /\ ops = 0
    /\ expected = [V |-> {}, E |-> {}]
    /\ pc = [t \in Threads |-> "idle"]
    /\ frame = [t \in Threads |-> NoFrame]
    /\ lock = 0
    /\ serial = InitState
    /\ observed = NoObservation
    /\ stack = <<>>
    /\ walk = NoWalk

AddVertex ==
    \E r \in Callable, vertex \in Nameable(Known), timestamp \in {NoTimestamp} \cup Timestamps :
        \E now \in Readings(r) :
            /\ ops < MaxOps
            /\ Install(addVertex(Entry, r, vertex, timestamp, now))
            /\ Tick(r, timestamp, now)
            /\ ops' = ops + 1
            /\ UNCHANGED <<expected, threadVars, walkVars>>

AddEdge ==
    \E r \in Callable, frm \in Nameable(Known) :
        \E to \in Nameable(Known \cup {frm}), now \in Readings(r) :
            /\ ops < MaxOps
            /\ Install(addEdge(Entry, r, frm, to, now))
            /\ Tick(r, NoTimestamp, now)
            /\ ops' = ops + 1
            /\ UNCHANGED <<expected, threadVars, walkVars>>

RemoveVertex ==
    \E r \in Callable, vertex \in Nameable(Known) :
        \E now \in Readings(r) :
            /\ ops < MaxOps
            /\ Install(removeVertex(Entry, r, vertex, now))
            /\ Tick(r, NoTimestamp, now)
            /\ ops' = ops + 1
            /\ UNCHANGED <<expected, threadVars, walkVars>>

RemoveEdge ==
    \E r \in Callable, frm \in Nameable(Known), timestamp \in {NoTimestamp} \cup Timestamps :
        \E to \in Nameable(Known \cup {frm}), now \in Readings(r) :
            /\ ops < MaxOps
            /\ Install(removeEdge(Entry, r, frm, to, timestamp, now))
            /\ Tick(r, timestamp, now)
            /\ ops' = ops + 1
            /\ UNCHANGED <<expected, threadVars, walkVars>>

Merge ==
    \E r \in Callable, r2 \in Callable, byRef \in BOOLEAN :
      \E order \in Orders(r, r2) :
        /\ ops < MaxOps
        /\ Install(merge(Entry, r, r2, byRef, order))
        /\ ops' = ops + 1
        /\ UNCHANGED <<clock, expected, threadVars, walkVars>>

Next == AddVertex \/ AddEdge \/ RemoveVertex \/ RemoveEdge \/ Merge

Spec == Init /\ [][Next]_vars

\* ------------------------------------------------------------------ one caller
\* One replica, one caller, no merge and no caller-supplied timestamp: every
\* operation reads a clock value strictly greater than all earlier ones.  Only the
\* order of the timestamps is ever compared, so the k-th operation reads k.
\* expected is the graph the caller's own calls describe: an add puts the element
\* in, a remove takes it out, removeVertex also takes out the edges at the vertex.
LocalReading == clock[1] + 1

LocalStep(st) ==
    /\ ops < MaxLocalOps
    /\ Install(st)
    /\ clock' = [clock EXCEPT ![1] = LocalReading]
    /\ ops' = ops + 1
    /\ UNCHANGED <<threadVars, walkVars>>

LocalAddVertex ==
    \E vertex \in Nameable(Known) :
        /\ LocalStep(addVertex(Entry, 1, vertex, NoTimestamp, LocalReading))
        /\ expected' = [expected EXCEPT !.V = @ \cup {vertex}]

LocalAddEdge ==
    \E frm \in Nameable(Known) : \E to \in Nameable(Known \cup {frm}) :
        /\ LocalStep(addEdge(Entry, 1, frm, to, LocalReading))
        /\ expected' = [V |-> expected.V \cup {frm, to}, E |-> expected.E \cup {<<frm, to>>}]

LocalRemoveVertex ==
    \E vertex \in Nameable(Known) :
        /\ LocalStep(removeVertex(Entry, 1, vertex, LocalReading))
        /\ expected' = [V |-> expected.V \ {vertex},
                        E |-> {e \in expected.E : e[1] # vertex /\ e[2] # vertex}]

LocalRemoveEdge ==
    \E frm \in Nameable(Known) : \E to \in Nameable(Known \cup {frm}) :
        /\ LocalStep(removeEdge(Entry, 1, frm, to, NoTimestamp, LocalReading))
        /\ expected' = [expected EXCEPT !.E = @ \ {<<frm, to>>}]

LocalNext == LocalAddVertex \/ LocalAddEdge \/ LocalRemoveVertex \/ LocalRemoveEdge

SpecLocal == Init /\ [][LocalNext]_vars

\* ------------------------------------------------------------------ threads
\* Several threads call one Graph object, replica Threaded; the other replicas
\* are Graph objects of other processes, whose sets a merge receives.  First a
\* single caller builds the replicas (Setup), then every thread makes one call:
\* a mutation or merge, which runs `with self.lock:` around its body, or a query,
\* which (lines 102-186) takes no lock.  A step of a body is one write to a dict
\* of the Graph together with the reads before it; a query reads the dicts as
\* they are in one state.  The nested calls (addVertex in addEdge, removeEdge in
\* removeVertex) take self.lock again, which an RLock grants to its owner.
Threaded == NumReplicas

\* lines 45-46 and 48-49: `if not self.lookupVertexExists(v): self.addVertex(v, timestamp)`
ensureVertex(st, r, vertex, timestamp) ==
    IF ~lookupVertexExists(st, r, vertex)
    THEN addVertex(st, r, vertex, timestamp, timestamp) ELSE st

\* lines 51-54: the write of the edge entry
addEdgeEntry(st, r, frm, to, timestamp) ==
    IF Truthy(st, st.ea[r], frm)
    THEN [st EXCEPT !.heap[st.ea[r][frm]] = OPut(@, to, timestamp)]
    ELSE [st EXCEPT !.ea[r] = Put(@, frm, Ref("added", r, frm)),
                    !.heap = Put(@, Ref("added", r, frm), <<<<to, timestamp>>>>)]

\* the vertices some dict or some pending call names
KnownT ==
    Known \cup ({frame[t].x : t \in {u \in Threads : frame[u].op # "merge"}} \ {0})
          \cup ({frame[t].y : t \in Threads} \ {0})

\* the calls a thread can make (addVertex and removeEdge without a timestamp)
Calls ==
    {[NoFrame EXCEPT !.op = "addVertex", !.step = "write", !.x = v] :
        v \in Nameable(KnownT)}
    \cup {[NoFrame EXCEPT !.op = "removeEdge", !.step = "write", !.x = e[1], !.y = e[2]] :
             e \in {c \in Vertices \X Vertices :
                       c[1] \in Nameable(KnownT) /\ c[2] \in Nameable(KnownT \cup {c[1]})}}
    \cup {[NoFrame EXCEPT !.op = "addEdge", !.step = "to", !.x = e[1], !.y = e[2]] :
             e \in {c \in Vertices \X Vertices :
                       c[1] \in Nameable(KnownT) /\ c[2] \in Nameable(KnownT \cup {c[1]})}}
    \cup {[NoFrame EXCEPT !.op = "removeVertex", !.step = "mark", !.x = v] :
             v \in Nameable(KnownT)}
    \cup {[NoFrame EXCEPT !.op = "merge", !.step = "va", !.x = r2, !.byRef = byRef] :
             r2 \in Replicas, byRef \in BOOLEAN}

\* threads are interchangeable: the first call is thread 1's
MayCall(t) == pc[t] = "idle" /\ \A u \in 1..(t - 1) : pc[u] # "idle"

\* mutant: the lock is granted whoever holds it
CanAcquire_always(t) == TRUE

\* RLock.acquire by a thread that does not hold the lock: granted when it is free
CanAcquire(t) == lock = 0

\* the value _generateTimestamp returned to a call, none when it was not called
Generated(timestamp, now) == IF timestamp = NoTimestamp THEN now ELSE NoTimestamp

\* mutant: a lock that is not re-entrant makes its holder wait for itself
Reacquire_blocks(t) == lock = 0

\* RLock.acquire by the thread that holds the lock, in the `with self.lock:` of a
\* nested addVertex or removeEdge: granted at once, and given back at the end of
\* the nested call, which is part of the same step
Reacquire(t) == lock = t

\* a step of thread t inside its `with self.lock:` body: writes st, goes on with
\* locals f, and leaves the body when done
BodyStep(t, st, f, done) ==
    /\ Write(st)
    /\ frame' = [frame EXCEPT ![t] = f]
    /\ pc' = [pc EXCEPT ![t] = IF done THEN "release" ELSE "body"]
    /\ UNCHANGED <<lock, serial, observed, ops, expected, walkVars>>

InBody(t, op, step) ==
    pc[t] = "body" /\ frame[t].op = op /\ frame[t].step = step

\* the state the call of thread t gives when it runs alone on the state the
\* completed calls gave
Outcome(t) ==
    LET f == frame[t]
    IN  CASE f.op = "addVertex" -> addVertex(serial, Threaded, f.x, f.timestamp, f.now)
          [] f.op = "addEdge" -> addEdge(serial, Threaded, f.x, f.y, f.now)
          [] f.op = "removeVertex" -> removeVertex(serial, Threaded, f.x, f.now)
          [] f.op = "removeEdge" -> removeEdge(serial, Threaded, f.x, f.y, f.timestamp, f.now)
          [] f.op = "merge" -> merge(serial, Threaded, f.x, f.byRef, f.order)
          [] OTHER -> serial

\* the single caller's part: whole calls, before any thread has called
Setup ==
    /\ \A t \in Threads : pc[t] = "idle"
    /\ ops < MaxSetupOps
    /\ Next

\* a thread calls a mutation or merge and reaches its `with self.lock:`
Call ==
    \E t \in Threads :
        /\ MayCall(t)
        /\ pc' = [pc EXCEPT ![t] = "acquire"]
        /\ UNCHANGED <<vertices_added_set, vertices_removed_set, edges_added_set,
                       edges_removed_set, heap, clock, err, ops, expected, frame, lock,
                       serial, observed, walkVars>>

\* `with self.lock:` entered.  What the call is, and its arguments, shows to
\* the other threads from here on, so they are drawn here.
Acquire ==
    \E t \in Threads :
        /\ pc[t] = "acquire"
        /\ CanAcquire(t)
        /\ \E call \in Calls : frame' = [frame EXCEPT ![t] = call]
        /\ lock' = t
        /\ pc' = [pc EXCEPT ![t] = "body"]
        /\ err' = "none"
        /\ UNCHANGED <<vertices_added_set, vertices_removed_set, edges_added_set,
                       edges_removed_set, heap, clock, ops, expected, serial, observed,
                       walkVars>>

\* `with self.lock:` left, by the end of the body or by an exception
Release ==
    \E t \in Threads :
        /\ pc[t] = "release"
        /\ lock' = 0
        /\ serial' = Outcome(t)
        /\ pc' = [pc EXCEPT ![t] = "done"]
        /\ frame' = [frame EXCEPT ![t] = NoFrame]
        /\ UNCHANGED <<vertices_added_set, vertices_removed_set, edges_added_set,
                       edges_removed_set, heap, clock, err, ops, expected, observed,
                       walkVars>>

\* addVertex, lines 29-30
ThreadAddVertex ==
    \E t \in Threads : \E now \in Readings(Threaded) :
        LET f == frame[t]
        IN  /\ InBody(t, "addVertex", "write")
            /\ BodyStep(t, addVertex(State, Threaded, f.x, f.timestamp, now),
                        [f EXCEPT !.now = Generated(f.timestamp, now)], TRUE)
            /\ Tick(Threaded, f.timestamp, now)

\* removeEdge, lines 95-100
ThreadRemoveEdge ==
    \E t \in Threads : \E now \in Readings(Threaded) :
        LET f == frame[t]
        IN  /\ InBody(t, "removeEdge", "write")
            /\ BodyStep(t, removeEdge(State, Threaded, f.x, f.y, f.timestamp, now),
                        [f EXCEPT !.now = Generated(f.timestamp, now)], TRUE)
            /\ Tick(Threaded, f.timestamp, now)

\* addEdge, lines 43-46
ThreadAddEdgeTo ==
    \E t \in Threads : \E now \in Readings(Threaded) :
        LET f == frame[t]
        IN  /\ InBody(t, "addEdge", "to")
            /\ IF lookupVertexExists(State, Threaded, f.y) THEN TRUE ELSE Reacquire(t)
            /\ BodyStep(t, ensureVertex(State, Threaded, f.y, now),
                        [f EXCEPT !.now = now, !.step = "frm"], FALSE)
            /\ Tick(Threaded, NoTimestamp, now)

\* addEdge, lines 48-49
ThreadAddEdgeFrm ==
    \E t \in Threads :
        LET f == frame[t]
        IN  /\ InBody(t, "addEdge", "frm")
            /\ IF lookupVertexExists(State, Threaded, f.x) THEN TRUE ELSE Reacquire(t)
            /\ BodyStep(t, ensureVertex(State, Threaded, f.x, f.now),
                        [f EXCEPT !.step = "edge"], FALSE)
            /\ UNCHANGED clock

\* addEdge, lines 51-54
ThreadAddEdgeEntry ==
    \E t \in Threads :
        LET f == frame[t]
        IN  /\ InBody(t, "addEdge", "edge")
            /\ BodyStep(t, addEdgeEntry(State, Threaded, f.x, f.y, f.now), f, TRUE)
            /\ UNCHANGED clock

\* where removeVertex goes on: the first loop, the second loop, or the end
LoopStep(todo, pending) ==
    IF todo # <<>> THEN "out" ELSE IF pending # {} THEN "in" ELSE "end"

\* removeVertex, lines 67-71: the vertex entry; the first loop walks the list
\* made here, the second loop the sources whose inner dict has the vertex
ThreadRemoveVertexMark ==
    \E t \in Threads : \E now \in Readings(Threaded) :
        LET f == frame[t]
            ea == edges_added_set[Threaded]
            todo == IF f.x \in DOMAIN ea THEN Keys(heap[ea[f.x]]) ELSE <<>>
            pending == {c \in DOMAIN ea : c # f.x /\ f.x \in KeySet(heap[ea[c]])}
        IN  /\ InBody(t, "removeVertex", "mark")
            /\ BodyStep(t, [State EXCEPT !.vr[Threaded] = Put(@, f.x, now)],
                        [f EXCEPT !.now = now, !.todo = todo, !.pending = pending,
                                  !.step = LoopStep(todo, pending)],
                        LoopStep(todo, pending) = "end")
            /\ Tick(Threaded, NoTimestamp, now)

\* removeVertex, lines 74-75: one pass of the first loop
ThreadRemoveVertexOut ==
    \E t \in Threads :
        LET f == frame[t]
            todo == Tail(f.todo)
        IN  /\ InBody(t, "removeVertex", "out")
            /\ Reacquire(t)
            /\ BodyStep(t, removeEdge(State, Threaded, f.x, Head(f.todo), f.now, f.now),
                        [f EXCEPT !.todo = todo, !.step = LoopStep(todo, f.pending)],
                        LoopStep(todo, f.pending) = "end")
            /\ UNCHANGED clock

\* removeVertex, lines 78-81: one pass of the second loop that removes an edge
ThreadRemoveVertexIn ==
    \E t \in Threads : \E connection \in frame[t].pending :
        LET f == frame[t]
            pending == f.pending \ {connection}
        IN  /\ InBody(t, "removeVertex", "in")
            /\ Reacquire(t)
            /\ BodyStep(t, removeEdge(State, Threaded, connection, f.x, f.now, f.now),
                        [f EXCEPT !.pending = pending, !.step = LoopStep(<<>>, pending)],
                        LoopStep(<<>>, pending) = "end")
            /\ UNCHANGED clock

\* merge, lines 207-209; the order in which the two _mergeEdges calls will
\* iterate the overlapping sources is fixed from here on
ThreadMergeVerticesAdded ==
    \E t \in Threads :
        /\ InBody(t, "merge", "va")
        /\ \E order \in Orders(Threaded, frame[t].x) :
            LET f == frame[t]
            IN
            /\ BodyStep(t, [State EXCEPT !.va[Threaded] = mergeVertices(@, State.va[f.x])],
                        [f EXCEPT !.order = order, !.step = "vr"], FALSE)
            /\ UNCHANGED clock

\* merge, lines 210-212
ThreadMergeVerticesRemoved ==
    \E t \in Threads :
        LET f == frame[t]
        IN  /\ InBody(t, "merge", "vr")
            /\ BodyStep(t, [State EXCEPT !.vr[Threaded] = mergeVertices(@, State.vr[f.x])],
                        [f EXCEPT !.step = "ea"], FALSE)
            /\ UNCHANGED clock

\* merge, lines 214-216: a KeyError leaves the body
ThreadMergeEdgesAdded ==
    \E t \in Threads :
        LET f == frame[t]
            a == mergeEdges(heap, "added", Threaded, edges_added_set[Threaded],
                            edges_added_set[f.x], f.byRef, f.order)
        IN  /\ InBody(t, "merge", "ea")
            /\ BodyStep(t, IF a.raised
                           THEN [State EXCEPT !.heap = a.heap, !.err = "KeyError"]
                           ELSE [State EXCEPT !.heap = a.heap, !.ea[Threaded] = a.latest],
                        [f EXCEPT !.step = "er"], a.raised)
            /\ UNCHANGED clock

\* merge, lines 217-219
ThreadMergeEdgesRemoved ==
    \E t \in Threads :
        LET f == frame[t]
            b == mergeEdges(heap, "removed", Threaded, edges_removed_set[Threaded],
                            edges_removed_set[f.x], f.byRef, f.order)
        IN  /\ InBody(t, "merge", "er")
            /\ BodyStep(t, IF b.raised
                           THEN [State EXCEPT !.heap = b.heap, !.err = "KeyError"]
                           ELSE [State EXCEPT !.heap = b.heap, !.er[Threaded] = b.latest],
                        f, TRUE)
            /\ UNCHANGED clock

\* the queries, lines 102-186: no lock is taken
Queried(t, observation) ==
    /\ observed' = observation
    /\ pc' = [pc EXCEPT ![t] = "done"]
    /\ UNCHANGED <<vertices_added_set, vertices_removed_set, edges_added_set,
                   edges_removed_set, heap, clock, err, ops, expected, frame, lock,
                   serial, walkVars>>

QueryVertexExists ==
    \E t \in {u \in Threads : MayCall(u)} : \E vertex \in Nameable(KnownT) :
        Queried(t, [NoObservation EXCEPT !.kind = "vertexExists", !.x = vertex,
                        !.exists = lookupVertexExists(State, Threaded, vertex)])

QueryConnectedVertices ==
    \E t \in {u \in Threads : MayCall(u)} : \E vertex \in Nameable(KnownT) :
        Queried(t, [NoObservation EXCEPT !.kind = "connectedVertices", !.x = vertex,
                        !.list = lookupConnectedVertices(State, Threaded, vertex)])

QueryFindPaths ==
    \E t \in {u \in Threads : MayCall(u)} :
      \E vertex1 \in Nameable(KnownT), vertex2 \in Nameable(KnownT) :
        Queried(t, [NoObservation EXCEPT !.kind = "findPaths", !.x = vertex1, !.y = vertex2,
                        !.list = findPaths(State, Threaded, vertex1, vertex2, <<>>)])

ThreadNext ==
    \/ Setup
    \/ Call
    \/ Acquire
    \/ Release
    \/ ThreadAddVertex
    \/ ThreadRemoveEdge
    \/ ThreadAddEdgeTo
    \/ ThreadAddEdgeFrm
    \/ ThreadAddEdgeEntry
    \/ ThreadRemoveVertexMark
    \/ ThreadRemoveVertexOut
    \/ ThreadRemoveVertexIn
    \/ ThreadMergeVerticesAdded
    \/ ThreadMergeVerticesRemoved
    \/ ThreadMergeEdgesAdded
    \/ ThreadMergeEdgesRemoved
    \/ QueryVertexExists
    \/ QueryConnectedVertices
    \/ QueryFindPaths

SpecThreads == Init /\ [][ThreadNext]_vars

\* the steps of the threads that are inside a call: the scheduler runs a thread
\* that can take a step, and a thread waiting for the lock gets it once it stays
\* free
ThreadProgress ==
    \/ Acquire
    \/ Release
    \/ ThreadAddVertex
    \/ ThreadRemoveEdge
    \/ ThreadAddEdgeTo
    \/ ThreadAddEdgeFrm
    \/ ThreadAddEdgeEntry
    \/ ThreadRemoveVertexMark
    \/ ThreadRemoveVertexOut
    \/ ThreadRemoveVertexIn
    \/ ThreadMergeVerticesAdded
    \/ ThreadMergeVerticesRemoved
    \/ ThreadMergeEdgesAdded
    \/ ThreadMergeEdgesRemoved

\* the threads' calls of the mutations and merge alone, on replicas that start
\* empty, under that scheduling
LockNext == Call \/ ThreadProgress

FairSpecThreads == Init /\ [][LockNext]_vars /\ WF_vars(ThreadProgress)

\* ------------------------------------------------------------------ findPaths, call by call
\* findPaths as the interpreter runs it: a stack of calls.  A single caller
\* builds the graph of replica Walked (WalkSetup), then calls findPaths once.  A
\* call holds its path (after line 167), the neighbours the loop of line 176 has
\* still to visit, its paths and its newpaths.
Walked == 1

\* mutant: no neighbour counts as being on the path
OnPath_never(vertex, path) == FALSE

\* line 177: `vertex in path`
OnPath(vertex, path) == \E i \in 1..Len(path) : path[i] = vertex

\* lines 167-174: a call up to its loop; a call with vertex1 = vertex2 has
\* nothing to visit and returns [path]
NewCall(vertex1, vertex2, path) ==
    LET path1 == path \o <<vertex1>>
    IN  [vertex1 |-> vertex1, path |-> path1,
         todo |-> IF vertex1 = vertex2 THEN <<>>
                  ELSE lookupConnectedVertices(State, Walked, vertex1),
         paths |-> IF vertex1 = vertex2 THEN <<path1>> ELSE <<>>,
         newpaths |-> Unbound]

\* lines 180-184 in the caller: the paths of newpaths are appended, and the loop
\* goes to the next neighbour
Appended(call, newpaths) ==
    [call EXCEPT !.newpaths = newpaths,
                 !.paths = IF newpaths.bound THEN @ \o newpaths.list ELSE @,
                 !.todo = Tail(@)]

WalkSetup ==
    /\ walk.state = "idle"
    /\ ops < MaxWalkOps
    /\ LocalNext

WalkCall ==
    \E vertex1 \in Nameable(Known), vertex2 \in Nameable(Known) :
        /\ walk.state = "idle"
        /\ walk' = [NoWalk EXCEPT !.state = "running", !.vertex1 = vertex1,
                                  !.vertex2 = vertex2]
        /\ stack' = <<NewCall(vertex1, vertex2, <<>>)>>
        /\ UNCHANGED <<vertices_added_set, vertices_removed_set, edges_added_set,
                       edges_removed_set, heap, clock, err, ops, expected, threadVars,
                       serial>>

\* line 178: the neighbour is not on the path, findPaths is called for it
WalkRecurse ==
    /\ stack # <<>>
    /\ stack[Len(stack)].todo # <<>>
    /\ ~OnPath(Head(stack[Len(stack)].todo), stack[Len(stack)].path)
    /\ stack' = Append(stack, NewCall(Head(stack[Len(stack)].todo), walk.vertex2,
                                      stack[Len(stack)].path))
    /\ UNCHANGED <<vertices_added_set, vertices_removed_set, edges_added_set,
                   edges_removed_set, heap, clock, err, ops, expected, threadVars,
                   serial, walk>>

\* lines 177, 180-184: the neighbour is on the path, newpaths keeps the value
\* it has
WalkSkip ==
    /\ stack # <<>>
    /\ stack[Len(stack)].todo # <<>>
    /\ OnPath(Head(stack[Len(stack)].todo), stack[Len(stack)].path)
    /\ stack' = [stack EXCEPT ![Len(stack)] = Appended(@, @.newpaths)]
    /\ UNCHANGED <<vertices_added_set, vertices_removed_set, edges_added_set,
                   edges_removed_set, heap, clock, err, ops, expected, threadVars,
                   serial, walk>>

\* lines 170, 186: the call on top returns its paths, to the call below it
\* (line 178, then lines 180-184) or to the caller
WalkReturn ==
    /\ stack # <<>>
    /\ stack[Len(stack)].todo = <<>>
    /\ IF Len(stack) = 1
       THEN /\ stack' = <<>>
            /\ walk' = [walk EXCEPT !.state = "returned", !.result = stack[1].paths]
       ELSE /\ stack' = [SubSeq(stack, 1, Len(stack) - 1) EXCEPT ![Len(stack) - 1] =
                            Appended(@, Bound(stack[Len(stack)].paths))]
            /\ UNCHANGED walk
    /\ UNCHANGED <<vertices_added_set, vertices_removed_set, edges_added_set,
                   edges_removed_set, heap, clock, err, ops, expected, threadVars,
                   serial>>

WalkNext == WalkSetup \/ WalkCall \/ WalkRecurse \/ WalkSkip \/ WalkReturn

\* the interpreter goes on with a call that has not returned
SpecWalk == Init /\ [][WalkNext]_vars /\ WF_vars(WalkRecurse \/ WalkSkip \/ WalkReturn)

\* ------------------------------------------------------------------ claims
Range(seq) == {seq[i] : i \in 1..Len(seq)}

\* C7: on one replica with no merges and strictly increasing generated
\* timestamps, last write wins: a vertex exists iff its last add has no later
\* removeVertex, and connectedVertices(f) reports t iff the last addEdge(f, t)
\* has no later removeEdge(f, t), removeVertex(f) or removeVertex(t).
C7_LastWriteWins ==
    /\ \A v \in Vertices : lookupVertexExists(State, 1, v) <=> v \in expected.V
    /\ \A f \in Vertices, t \in Vertices :
          t \in Range(lookupConnectedVertices(State, 1, f)) <=> <<f, t>> \in expected.E

\* an edge was added, lost to a removeVertex of its target, and added again
C7_Witness ==
    /\ ops = 4
    /\ <<1, 2>> \in expected.E
    /\ 2 \in DOMAIN vertices_removed_set[1]
    /\ 1 \in DOMAIN edges_removed_set[1]
    /\ 2 \in Range(lookupConnectedVertices(State, 1, 1))

\* the four maps of replica r as plain values (dict equality: the inner dicts by
\* content, whatever their identity and insertion order)
EdgeValues(st, edges) == [source \in DOMAIN edges |-> AsMap(st.heap[edges[source]])]

View(st, r) ==
    [va |-> st.va[r], vr |-> st.vr[r],
     ea |-> EdgeValues(st, st.ea[r]), er |-> EdgeValues(st, st.er[r])]

Greater(x, y) == IF x > y THEN x ELSE y

\* C1: merge is commutative: replica a merging b's four sets ends with the same
\* four maps as replica b merging a's four sets (and both merges return).
C1_MergeCommutes ==
    \A a \in Replicas, b \in Replicas, byRef \in BOOLEAN : \A order \in Orders(a, b) :
        LET sa == merge(Entry, a, b, byRef, order)
            sb == merge(Entry, b, a, byRef, order)
        IN  /\ sa.err = "none"
            /\ sb.err = "none"
            /\ View(sa, a) = View(sb, b)

\* C2: after a merge that returned, EdgesAdded and EdgesRemoved hold exactly the
\* (source, target) pairs of the local and of the received map, each with the
\* greater of its timestamps.
MergedEdges(local, received) ==
    [source \in (DOMAIN local) \cup (DOMAIN received) |->
        [target \in (IF source \in DOMAIN local THEN DOMAIN local[source] ELSE {})
                    \cup (IF source \in DOMAIN received THEN DOMAIN received[source] ELSE {}) |->
            IF source \in DOMAIN local /\ target \in DOMAIN local[source]
            THEN IF source \in DOMAIN received /\ target \in DOMAIN received[source]
                 THEN Greater(local[source][target], received[source][target])
                 ELSE local[source][target]
            ELSE received[source][target]]]

C2_MergeEdgesUnion ==
    \A a \in Replicas, b \in Replicas, byRef \in BOOLEAN : \A order \in Orders(a, b) :
        LET s == merge(Entry, a, b, byRef, order)
        IN  s.err = "none" =>
                /\ View(s, a).ea = MergedEdges(View(Entry, a).ea, View(Entry, b).ea)
                /\ View(s, a).er = MergedEdges(View(Entry, a).er, View(Entry, b).er)

\* C3: merge is idempotent: a replica that merges its own four sets, or an equal
\* copy of them, returns and keeps its four maps.
C3_MergeIdempotent ==
    \A r \in Replicas, byRef \in BOOLEAN : \A order \in Orders(r, r) :
        LET s == merge(Entry, r, r, byRef, order)
        IN  /\ s.err = "none"
            /\ View(s, r) = View(Entry, r)

\* a replica with all four maps filled that has merged before (it holds an inner
\* dict another replica created)
C3_Witness ==
    \E r \in Replicas :
        /\ vertices_added_set[r] # EmptyDict
        /\ vertices_removed_set[r] # EmptyDict
        /\ edges_added_set[r] # EmptyDict
        /\ edges_removed_set[r] # EmptyDict
        /\ \E source \in DOMAIN edges_added_set[r] : edges_added_set[r][source][2] # r

\* C4: merge is associative: merging c into (a merged with b) gives the four maps
\* of merging (b merged with c) into a, and every merge involved returns.
C4_MergeAssociative ==
    \A a \in Replicas, b \in Replicas, c \in Replicas, byRef \in BOOLEAN :
      \A order \in OrdersOf(Vertices) :
        LET ab == merge(Entry, a, b, byRef, order)
            ab_c == merge(ab, a, c, byRef, order)
            bc == merge(Entry, b, c, byRef, order)
            a_bc == merge(bc, a, b, byRef, order)
        IN  /\ ab_c.err = "none"
            /\ a_bc.err = "none"
            /\ View(ab_c, a) = View(a_bc, a)

\* C5: after merge (also one that raised in _mergeEdges), VerticesAdded and
\* VerticesRemoved hold the union of the local and received keys, each with the
\* greater timestamp.  So a vertex the remote removed later than every add does
\* not exist afterwards, and a vertex that existed locally and whose local add is
\* later than the remote removal still exists.
MergedVertices(local, received) ==
    [vertex \in (DOMAIN local) \cup (DOMAIN received) |->
        IF vertex \in (DOMAIN local) \cap (DOMAIN received)
        THEN Greater(local[vertex], received[vertex])
        ELSE IF vertex \in DOMAIN local THEN local[vertex] ELSE received[vertex]]

RemovedLaterThanEveryAdd(vertex, remote, local) ==
    /\ vertex \in DOMAIN vertices_removed_set[remote]
    /\ \A r \in {remote, local} :
          vertex \in DOMAIN vertices_added_set[r] =>
              vertices_removed_set[remote][vertex] > vertices_added_set[r][vertex]

LocalAddLaterThanRemoval(vertex, remote, local) ==
    /\ lookupVertexExists(Entry, local, vertex)
    /\ vertex \in DOMAIN vertices_removed_set[remote]
    /\ vertices_added_set[local][vertex] > vertices_removed_set[remote][vertex]

C5_MergeVerticesUnion ==
    \A a \in Replicas, b \in Replicas, byRef \in BOOLEAN : \A order \in Orders(a, b) :
        LET s == merge(Entry, a, b, byRef, order)
        IN  /\ s.va[a] = MergedVertices(vertices_added_set[a], vertices_added_set[b])
            /\ s.vr[a] = MergedVertices(vertices_removed_set[a], vertices_removed_set[b])
            /\ \A v \in Vertices :
                  /\ RemovedLaterThanEveryAdd(v, b, a) => ~lookupVertexExists(s, a, v)
                  /\ LocalAddLaterThanRemoval(v, b, a) => lookupVertexExists(s, a, v)

\* replica 1 holds vertex 1, which replica 2 added too and removed later than
\* both adds: merging replica 2's sets into replica 1 removes it there
C5_Witness ==
    /\ 1 \in DOMAIN vertices_added_set[2]
    /\ RemovedLaterThanEveryAdd(1, 2, 1)
    /\ lookupVertexExists(Entry, 1, 1)
    /\ 1 \notin DOMAIN vertices_removed_set[1]

\* C6: no operation raises: every call returns, merge included, whatever the
\* received sets.
C6_NoOperationRaises == err = "none"

\* C8: vertexExists(v) iff v is in VerticesAdded and is not in VerticesRemoved or
\* has VerticesAdded[v] >= VerticesRemoved[v]; on a tie the vertex exists.
C8_VertexExists ==
    \A r \in Replicas, v \in Vertices :
        /\ lookupVertexExists(State, r, v) <=>
              /\ v \in DOMAIN vertices_added_set[r]
              /\ \/ v \notin DOMAIN vertices_removed_set[r]
                 \/ ~(vertices_added_set[r][v] < vertices_removed_set[r][v])
        /\ (/\ v \in DOMAIN vertices_added_set[r]
            /\ v \in DOMAIN vertices_removed_set[r]
            /\ vertices_added_set[r][v] = vertices_removed_set[r][v])
           => lookupVertexExists(State, r, v)

\* a vertex added and removed at the same timestamp, and one removed later
C8_Witness ==
    \E r \in Replicas, v \in Vertices, w \in Vertices :
        /\ v \in DOMAIN vertices_added_set[r]
        /\ v \in DOMAIN vertices_removed_set[r]
        /\ vertices_added_set[r][v] = vertices_removed_set[r][v]
        /\ lookupVertexExists(State, r, v)
        /\ w \in DOMAIN vertices_added_set[r]
        /\ w \in DOMAIN vertices_removed_set[r]
        /\ ~lookupVertexExists(State, r, w)

\* the inner dict an edge map holds for a vertex, empty when it holds none
InnerOf(edges, vertex) == IF vertex \in DOMAIN edges THEN heap[edges[vertex]] ELSE <<>>

\* C9: connectedVertices(v) is the targets t of EdgesAdded[v], in insertion order,
\* for which EdgesRemoved[v] has no entry or EdgesRemoved[v][t] <= EdgesAdded[v][t];
\* it is empty when EdgesAdded has no entry for v.
C9_ConnectedVertices ==
    \A r \in Replicas, v \in Vertices :
        LET added == InnerOf(edges_added_set[r], v)
            removed == InnerOf(edges_removed_set[r], v)
            present(entry) == \A i \in 1..Len(removed) :
                                  removed[i][1] = entry[1] => ~(removed[i][2] > entry[2])
        IN  /\ lookupConnectedVertices(State, r, v) = Keys(SelectSeq(added, present))
            /\ v \notin DOMAIN edges_added_set[r] => lookupConnectedVertices(State, r, v) = <<>>

\* vertex 1 got the edge to 2 before the edge to 1; the edge to 2 was removed at
\* the timestamp of its add and stays, in first place
C9_Witness ==
    \E r \in Replicas :
        /\ lookupConnectedVertices(State, r, 1) = <<2, 1>>
        /\ 2 \in KeySet(InnerOf(edges_removed_set[r], 1))
        /\ Get(InnerOf(edges_removed_set[r], 1), 2) = Get(InnerOf(edges_added_set[r], 1), 2)

\* the sequences of distinct vertices
SimpleSeqs ==
    UNION {{p \in [1..n -> Vertices] : \A i, j \in 1..n : p[i] = p[j] => i = j} :
           n \in 1..NumVertices}

\* the simple directed paths from start to end over the edges connectedVertices reports
SimplePaths(r, start, end) ==
    {p \in SimpleSeqs :
        /\ p[1] = start
        /\ p[Len(p)] = end
        /\ \A i \in 1..(Len(p) - 1) :
              p[i + 1] \in Range(lookupConnectedVertices(State, r, p[i]))}

\* the graph of test_findPaths: edges 1->2, 1->3, 2->5, 3->5, 5->7, 4->6
RECURSIVE addEdges(_, _, _)
addEdges(st, connections, now) ==
    IF connections = <<>> THEN st
    ELSE addEdges(addEdge(st, 1, Head(connections)[1], Head(connections)[2], now),
                  Tail(connections), now + 1)

TestGraph == addEdges(InitState, <<<<1, 2>>, <<1, 3>>, <<2, 5>>, <<3, 5>>, <<5, 7>>, <<4, 6>>>>, 1)

\* C10: the paths findPaths(start, end) returns are, as a set, the simple
\* directed paths from start to end over the edges connectedVertices reports; on
\* the graph of test_findPaths, findPaths(1, 5) is [[1,2,5],[1,3,5]] and
\* findPaths(5, 1) is empty.
C10_FindPathsAllSimplePaths ==
    /\ \A r \in Replicas, start \in Vertices, end \in Vertices :
          Range(findPaths(State, r, start, end, <<>>)) = SimplePaths(r, start, end)
    /\ findPaths(TestGraph, 1, 1, 5, <<>>) = <<<<1, 2, 5>>, <<1, 3, 5>>>>
    /\ findPaths(TestGraph, 1, 5, 1, <<>>) = <<>>

\* two simple paths from 1 to 3, and a cycle through 1
C10_Witness ==
    \E r \in Replicas :
        /\ SimplePaths(r, 1, 3) = {<<1, 3>>, <<1, 2, 3>>}
        /\ Range(findPaths(State, r, 1, 3, <<>>)) = {<<1, 3>>, <<1, 2, 3>>}

\* the entry an edge map of replica r holds for (source, target) in st, 0 when
\* it holds none
EdgeTs(st, edges, source, target) ==
    IF source \in DOMAIN edges /\ target \in KeySet(st.heap[edges[source]])
    THEN Get(st.heap[edges[source]], target) ELSE NoTimestamp

\* C11: findPaths(start, end) is empty whenever start or end does not exist per
\* vertexExists, also when start = end.
C11_FindPathsAbsentEndpoint ==
    \A r \in Replicas, start \in Vertices, end \in Vertices :
        (~lookupVertexExists(State, r, start) \/ ~lookupVertexExists(State, r, end))
            => findPaths(State, r, start, end, <<>>) = <<>>

\* C12: after addEdge(from, to) both endpoints have an entry in VerticesAdded and
\* EdgesAdded[from][to] holds the timestamp of the call; when neither endpoint
\* existed before, the two vertex entries hold that timestamp too.
C12_AddEdgeCreatesEndpoints ==
    \A r \in Replicas, frm \in Vertices, to \in Vertices : \A now \in Readings(r) :
        LET s == addEdge(Entry, r, frm, to, now)
        IN  /\ frm \in DOMAIN s.va[r]
            /\ to \in DOMAIN s.va[r]
            /\ EdgeTs(s, s.ea[r], frm, to) = now
            /\ (~lookupVertexExists(Entry, r, frm) /\ ~lookupVertexExists(Entry, r, to))
                  => s.va[r][frm] = now /\ s.va[r][to] = now

\* one addEdge(1, 2) on an empty replica has run: the three entries share its
\* timestamp
C12_Witness ==
    \E r \in Replicas :
        /\ ops = 1
        /\ DOMAIN vertices_added_set[r] = {1, 2}
        /\ vertices_added_set[r][1] = vertices_added_set[r][2]
        /\ EdgeTs(State, edges_added_set[r], 1, 2) = vertices_added_set[r][1]
        /\ clock[r] = vertices_added_set[r][1]

\* C13: after removeVertex(v), every entry EdgesAdded[v][t] and every entry
\* EdgesAdded[s][v] has its entry in EdgesRemoved, with the timestamp
\* VerticesRemoved[v] of this removal.
C13_RemoveVertexCascades ==
    \A r \in Replicas, v \in Vertices : \A now \in Readings(r) :
        LET s == removeVertex(Entry, r, v, now)
        IN  /\ v \in DOMAIN s.vr[r]
            /\ s.vr[r][v] = now
            /\ \A source \in DOMAIN s.ea[r] : \A target \in KeySet(s.heap[s.ea[r][source]]) :
                  (source = v \/ target = v)
                      => EdgeTs(s, s.er[r], source, target) = s.vr[r][v]

\* vertex 1 had an edge to 2 and an edge from 2, and the third call
\* removed it: both edges are in EdgesRemoved at the timestamp of the removal
C13_Witness ==
    \E r \in Replicas :
        /\ ops = 3
        /\ EdgeTs(State, edges_added_set[r], 1, 2) # NoTimestamp
        /\ EdgeTs(State, edges_added_set[r], 2, 1) # NoTimestamp
        /\ 1 \in DOMAIN vertices_removed_set[r]
        /\ EdgeTs(State, edges_removed_set[r], 1, 2) = vertices_removed_set[r][1]
        /\ EdgeTs(State, edges_removed_set[r], 2, 1) = vertices_removed_set[r][1]

\* the vertices an edge map of replica r names, as a source or as a target
EdgeVertices(edges) ==
    (DOMAIN edges) \cup UNION {KeySet(heap[edges[source]]) : source \in DOMAIN edges}

\* C14: every vertex that is the source or the target of an entry of EdgesAdded
\* or EdgesRemoved has an entry in VerticesAdded.
C14_EdgeVerticesAdded ==
    \A r \in Replicas :
        EdgeVertices(edges_added_set[r]) \cup EdgeVertices(edges_removed_set[r])
            \subseteq DOMAIN vertices_added_set[r]

\* C17: findPaths returns no path more than once.
C17_FindPathsNoDuplicate ==
    \A r \in Replicas, start \in Vertices, end \in Vertices :
        LET paths == findPaths(State, r, start, end, <<>>)
        IN  \A i, j \in 1..Len(paths) : paths[i] = paths[j] => i = j

\* C18: no present edge has an absent endpoint: whenever connectedVertices(v)
\* contains t, both v and t exist per vertexExists.
C18_PresentEdgeEndpointsExist ==
    \A r \in Replicas, v \in Vertices :
        \A t \in Range(lookupConnectedVertices(State, r, v)) :
            lookupVertexExists(State, r, v) /\ lookupVertexExists(State, r, t)

\* C19: replicas stay isolated: a merge on replica a of replica b's sets leaves
\* b's four maps, and so does every addEdge, removeEdge, removeVertex and merge
\* on a, also after a has merged b's sets.
C19_ReplicasIsolated ==
    \A a \in Replicas : \A b \in Replicas \ {a} :
        /\ \A byRef \in BOOLEAN : \A order \in Orders(a, b) :
              View(merge(Entry, a, b, byRef, order), b) = View(Entry, b)
        /\ \A frm \in Vertices, to \in Vertices : \A now \in Readings(a) :
              /\ View(addEdge(Entry, a, frm, to, now), b) = View(Entry, b)
              /\ View(removeEdge(Entry, a, frm, to, NoTimestamp, now), b) = View(Entry, b)
              /\ View(removeVertex(Entry, a, frm, now), b) = View(Entry, b)

\* C20: a timestamp stored in VerticesAdded or EdgesAdded is only ever replaced
\* by a strictly greater one: a step that changes a stored timestamp raises it.
C20_AddTimestampsGrow ==
    [][\A r \in Replicas, v \in Vertices :
          /\ v \in DOMAIN vertices_added_set[r]
                => vertices_added_set'[r][v] >= vertices_added_set[r][v]
          /\ \A t \in Vertices :
                EdgeTs([heap |-> heap'], edges_added_set'[r], v, t)
                    >= EdgeTs(State, edges_added_set[r], v, t)]_vars

\* the threaded replica is inside a call that has written a part of its writes:
\* its maps are neither what they were when the call began nor what the call
\* leaves
Intermediate ==
    /\ lock # 0
    /\ View(State, Threaded) # View(serial, Threaded)
    /\ View(State, Threaded) # View(Outcome(lock), Threaded)

\* C15: no operation of another thread, the queries included, observes an
\* intermediate state of a running addEdge, removeVertex or merge: no query
\* reads the maps while they are in such a state.
C15_NoIntermediateStateObserved ==
    [][(\E t \in Threads : pc[t] = "idle" /\ pc'[t] = "done") => ~Intermediate]_vars

\* C16: merge and the mutations exclude one another across threads: at most one
\* thread is inside a `with self.lock:` body, it is the holder of the lock, and
\* whenever no thread is inside, the maps are those the completed calls give when
\* run one after another in the order they took the lock.
C16_MutationsSerialized ==
    /\ Cardinality({t \in Threads : pc[t] \in {"body", "release"}}) <= 1
    /\ \A t \in Threads : pc[t] \in {"body", "release"} => lock = t
    /\ lock = 0 => \A r \in Replicas : View(State, r) = View(serial, r)

\* two threads called addEdge and removeVertex on the empty replica and both
\* calls have returned
C16_Witness ==
    /\ ops = 0
    /\ \A t \in Threads : pc[t] = "done"
    /\ observed.kind = "none"
    /\ edges_added_set[Threaded] # EmptyDict
    /\ vertices_removed_set[Threaded] # EmptyDict

\* the (source, target) pairs an edge map holds, its inner dicts read from hp
EdgePairs(edges, hp) ==
    UNION {{<<source, target>> : target \in KeySet(hp[edges[source]])} :
           source \in DOMAIN edges}

\* C21: no operation deletes a key: across every step the keys of VerticesAdded
\* and of VerticesRemoved and the (source, target) pairs of EdgesAdded and of
\* EdgesRemoved of every replica are kept.
C21_NoKeyDeleted ==
    [][\A r \in Replicas :
          /\ DOMAIN vertices_added_set[r] \subseteq DOMAIN vertices_added_set'[r]
          /\ DOMAIN vertices_removed_set[r] \subseteq DOMAIN vertices_removed_set'[r]
          /\ EdgePairs(edges_added_set[r], heap) \subseteq EdgePairs(edges_added_set'[r], heap')
          /\ EdgePairs(edges_removed_set[r], heap)
                \subseteq EdgePairs(edges_removed_set'[r], heap')]_vars

\* a source with an added edge got two removeEdge calls for two targets: the
\* second call kept the entry of the first
C21_Witness ==
    \E r \in Replicas :
        /\ ops = 3
        /\ EdgePairs(edges_removed_set[r], heap) = {<<1, 1>>, <<1, 2>>}
        /\ EdgePairs(edges_added_set[r], heap) = {<<1, 2>>}
        /\ DOMAIN vertices_removed_set[r] = {}

\* C22: the lock never causes a deadlock: under fair scheduling every call of
\* addVertex, addEdge, removeVertex, removeEdge and merge that a thread has made
\* returns, the nested calls included, and a lock that is held becomes free.
C22_NoDeadlock ==
    /\ \A t \in Threads : (pc[t] \in {"acquire", "body", "release"}) ~> (pc[t] = "done")
    /\ (lock # 0) ~> (lock = 0)

\* a thread waits for the lock while the holder is inside addEdge, past the
\* nested addVertex that added the endpoint `to`
C22_Witness ==
    \E t \in Threads, u \in Threads :
        /\ pc[t] = "acquire"
        /\ pc[u] = "body"
        /\ lock = u
        /\ frame[u].op = "addEdge"
        /\ frame[u].step = "frm"
        /\ frame[u].y \in DOMAIN vertices_added_set[Threaded]
        /\ vertices_added_set[Threaded][frame[u].y] = frame[u].now
        /\ frame[u].y \notin DOMAIN serial.va[Threaded]

\* C23: findPaths terminates, also on graphs with cycles and self-loops: every
\* call extends the path with a vertex that is not on it, so the calls that have
\* not returned are never more than the vertices (the start and those the edges
\* name), and the first call returns, with the paths findPaths gives.
C23_FindPathsTerminates ==
    /\ [](/\ Len(stack) <= Cardinality({walk.vertex1} \cup EdgeVertices(edges_added_set[Walked]))
          /\ \A d \in 1..Len(stack) :
                /\ Len(stack[d].path) = d
                /\ \A i, j \in 1..d : stack[d].path[i] = stack[d].path[j] => i = j)
    /\ (walk.state = "running") ~> (walk.state = "returned")
    /\ [](walk.state = "returned"
            => walk.result = findPaths(State, Walked, walk.vertex1, walk.vertex2, <<>>))

\* findPaths(1, 3) on a graph with the self-loop 1->1 and the cycle 1->2->1, and
\* no way to 3, has returned no path
C23_Witness ==
    /\ walk.state = "returned"
    /\ walk.vertex1 = 1
    /\ walk.vertex2 = 3
    /\ walk.result = <<>>
    /\ {1, 2} \subseteq Range(lookupConnectedVertices(State, Walked, 1))
    /\ 1 \in Range(lookupConnectedVertices(State, Walked, 2))

====
